---- MODULE Spec2Model ----
(***************************************************************************)
(* Cochlear_Navigation: the parameter provider (cochlea_parameters.py),    *)
(* the geometry engine (cochlea_model.py), the CSV/JSON exporter           *)
(* (cochlea_export.py) and the command line driver (main.py).              *)
(*                                                                         *)
(* Numbers.  The program computes in IEEE doubles; the model computes in   *)
(* fixed point on integers that fit 32 bits:                               *)
(*   shape parameters A1,B1,A2,B2      hundredths        (5.97 -> 597)     *)
(*   angles (phi, c_length, resolution) milliradians     (0.05 -> 50)      *)
(*   turns                              1/10000 turn                       *)
(*   polynomial coefficients/values     1/1000000 mm                       *)
(*   centerline coordinates             micrometres      (1/1000 mm)       *)
(*   cos, sin                           1/10000                            *)
(*   fractions (turn_fraction)          hundredths                         *)
(* Division rounds toward minus infinity.                                  *)
(***************************************************************************)
EXTENDS Integers, Sequences, FiniteSets, TLC

VARIABLES
    model,      \* the CochleaModel object of the session (built or not)
    result,     \* what the last library call returned or raised
    fs,         \* the files under the export directory: name -> content
    pc,         \* main(): the statement it is at
    args,       \* main(): the parsed command line
    locals,     \* export_all(): centerline_mode, num_cross_sections
    ret,        \* main(): its return value / exit status
    calls       \* the number of method calls made on the model

vars == <<model, result, fs, pc, args, locals, ret, calls>>

----------------------------------------------------------------------------
(* Bounds of the model.                                                    *)

\* a normal draw is taken MaxSigma standard deviations below or above the mean
MaxSigma == 4
\* validate_parameters is called with arrays of 0..MaxArity elements
MaxArity == 5
\* a custom parameter lies at a bound or OutStep hundredths outside it
OutStep == 1
\* a library session makes at most MaxCalls method calls on its model
MaxCalls == 1

----------------------------------------------------------------------------
(* Results of calls: a value returned or an exception raised.              *)

NoError == [type |-> "", text |-> "", name |-> "", value |-> 0, lo |-> 0, hi |-> 0]

Ok(v) == [status |-> "ok", error |-> NoError, value |-> v]

Raise(e) == [status |-> "raise", error |-> e, value |-> <<>>]

ValueError(text) ==
    [type |-> "ValueError", text |-> text, name |-> "", value |-> 0, lo |-> 0, hi |-> 0]

None == [some |-> FALSE, val |-> <<>>]

Some(v) == [some |-> TRUE, val |-> v]

----------------------------------------------------------------------------
(* cochlea_parameters.py                                                   *)

\* coefs['turns'], in 1/10000
coefs_turns == <<9631663, 63777, -269585, -363954, 669416>>

\* coefs['modiolus'], row = {1,A1,B1,A2,B2}, column i = coefficient of phi^i,
\* in 1/1000000
coefs_modiolus ==
    << << -97201,  65278,   5790,  -410 >>,
       << 745408, -297796, 35308, -1258 >>,
       << 349941,  -48817,  2357,   -34 >>,
       <<  56773,  115931, -17060,  605 >>,
       << -61400,  170503, -26755, 1116 >> >>

\* coefs['height'], same layout, in 1/1000000
coefs_height ==
    << << -2025562, 308685,  -24597,    937,   -6 >>,
       <<  -483934, 150264,  -24970,   1841,  -47 >>,
       <<    93691,  48593,  -11139,    853,  -24 >>,
       <<   437216, -609467, 147019, -12345,  342 >>,
       <<   198844,  70654,  -49027,   5536, -178 >> >>

\* generate_parameters: the anatomical mean vector
means == <<597, 395, 326, 285>>

\* generate_parameters: the standard deviations
stds == <<36, 35, 28, 33>>

param_names == <<"A1", "B1", "A2", "B2">>

\* validate_parameters: bounds[name] = (min_val, max_val)
bounds == <<  <<400, 800>>, <<250, 550>>, <<200, 450>>, <<150, 400>> >>

\* np.random.normal(mean, std): any real may come out; the model takes the
\* draws MaxSigma standard deviations below and above the mean.
normal(mean, std) == {mean - MaxSigma * std, mean + MaxSigma * std}

\* The random numbers one call of generate_parameters('random') draws, in
\* hundredths: the correlated sample of line 64, the four standard-normal
\* draws of line 73 and the four draws of line 74.
Draws ==
    [ random_values : { <<100, 100, 100, 100>>, <<210, 160, 40, -20>> },
      uniform_value : { <<0, 0, 0, 0>>, <<120, -80, 30, -150>> },
      parameters :
        { <<a1, b1, a2, b2>> :
            a1 \in normal(means[1], stds[1]), b1 \in normal(means[2], stds[2]),
            a2 \in normal(means[3], stds[3]), b2 \in normal(means[4], stds[4]) } ]

\* no random number is drawn
NoDraws == [random_values |-> << >>, uniform_value |-> << >>,
            parameters |-> << >>]

\* parameters transformed from the correlated sample:
\* means[i] + stds[i] * (random_values[i] - 1)
generate_parameters_correlated(draws) ==
    [i \in 1..4 |->
        means[i] + (stds[i] * (draws.random_values[i] - 100)) \div 100]

\* generate_parameters('random') lines 53-76 for given draws: the loop
\* stores the draw of line 74 in parameters[i]
generate_parameters_drawn(draws) == [i \in 1..4 |-> draws.parameters[i]]

\* generate_parameters('random'): the vectors it can return; nothing
\* checks them against the bounds
generate_parameters_random ==
    { generate_parameters_drawn(draws) : draws \in Draws }

\* variant: an unknown mode falls back to the mean vector
generate_parameters_fallback(mode) ==
    IF mode = "random" THEN {Ok(p) : p \in generate_parameters_random}
    ELSE {Ok(means)}

\* generate_parameters(mode): the set of outcomes (one for 'mean', one per
\* draw for 'random', the ValueError otherwise)
generate_parameters(mode) ==
    IF mode = "mean" THEN {Ok(means)}
    ELSE IF mode = "random" THEN {Ok(p) : p \in generate_parameters_random}
    ELSE {Raise(ValueError("Mode must be 'mean' or 'random'"))}

OutOfBounds(i, value) ==
    [type |-> "ValueError", text |-> "is outside reasonable bounds",
     name |-> param_names[i], value |-> value,
     lo |-> bounds[i][1], hi |-> bounds[i][2]]

\* variant: the loop runs from B2 back to A1
RECURSIVE validate_from_last(_, _)
validate_from_last(parameters, i) ==
    IF i > 4 THEN Ok(TRUE)
    ELSE IF ~(bounds[5 - i][1] <= parameters[5 - i]
              /\ parameters[5 - i] <= bounds[5 - i][2])
         THEN Raise(OutOfBounds(5 - i, parameters[5 - i]))
         ELSE validate_from_last(parameters, i + 1)

\* the loop of validate_parameters from index i on
RECURSIVE validate_from(_, _)
validate_from(parameters, i) ==
    IF i > 4 THEN Ok(TRUE)
    ELSE IF ~(bounds[i][1] <= parameters[i] /\ parameters[i] <= bounds[i][2])
         THEN Raise(OutOfBounds(i, parameters[i]))
         ELSE validate_from(parameters, i + 1)

\* variant: only too-short arrays are rejected (zip stops at 4 elements)
validate_parameters_short(parameters) ==
    IF Len(parameters) < 4
    THEN Raise(ValueError("Parameters must be a 4-element array"))
    ELSE validate_from(parameters, 1)

validate_parameters(parameters) ==
    IF Len(parameters) # 4
    THEN Raise(ValueError("Parameters must be a 4-element array"))
    ELSE validate_from(parameters, 1)

----------------------------------------------------------------------------
(* cochlea_model.py                                                        *)

NoModel == [built |-> FALSE, A |-> <<>>, c_length |-> 0, n_turns |-> 0]

\* np.dot(np.append(1, A), column): parameters are hundredths, so the
\* constant row is weighted 100 and the sum is in 1/100 of the table's unit
dot1A(A, col) ==
    100 * col[1] + A[1] * col[2] + A[2] * col[3] + A[3] * col[4] + A[4] * col[5]

\* 2*pi in 1/1000
TwoPi == 6283

\* variant: the leading constant 1 is not appended to A
_turn_number_estimation_no_constant(A) ==
    (dot1A(A, coefs_turns) - 100 * coefs_turns[1]) \div 36000

\* _turn_number_estimation, in 1/10000 turn
_turn_number_estimation(A) == dot1A(A, coefs_turns) \div 36000

\* self.c_length = turns * 2 * np.pi, in milliradians
c_length_of(A) == (_turn_number_estimation(A) * TwoPi) \div 10000

\* self.c_length / np.pi, in 1/10000 turn
n_turns_of_half(c_length) == (c_length * 10000) \div 3142

\* self.n_turns = self.c_length / (2 * np.pi), in 1/10000 turn
n_turns_of(c_length) == (c_length * 10000) \div TwoPi

\* the tail of __init__ once self.A is set
derive(A) ==
    [built |-> TRUE, A |-> A, c_length |-> c_length_of(A),
     n_turns |-> n_turns_of(c_length_of(A))]

\* CochleaModel.__init__(parameters, mode): the set of outcomes; an
\* exception leaves no object
CochleaModel_init(parameters, mode) ==
    IF ~parameters.some
    THEN { IF g.status = "ok" THEN Ok(derive(g.value)) ELSE g :
             g \in generate_parameters(mode) }
    ELSE LET v == validate_parameters(parameters.val)
         IN  { IF v.status = "ok" THEN Ok(derive(parameters.val)) ELSE v }

\* a * x / 1000 without leaving 32 bits
MulMilli(a, x) ==
    a * (x \div 1000) + (a \div 1000) * (x % 1000)
      + ((a % 1000) * (x % 1000)) \div 1000

\* column i (0-based, as in the source) of a coefficient table
Column(table, i) == [r \in 1..5 |-> table[r][i + 1]]

\* coeffs[::-1]
reversed(s) == [k \in 1..Len(s) |-> s[Len(s) + 1 - k]]

\* get_radius_coeffs: column i gives coeffs[i]; returned highest degree
\* first, in 1/1000000 mm
get_radius_coeffs(A) ==
    LET coeffs == [i \in 1..4 |->
                     dot1A(A, Column(coefs_modiolus, i - 1)) \div 100]
    IN  reversed(coeffs)

\* get_height_coeffs: column i gives coeffs[i]; returned highest degree
\* first, in 1/1000000 mm
get_height_coeffs(A) ==
    LET coeffs == [i \in 1..5 |->
                     dot1A(A, Column(coefs_height, i - 1)) \div 100]
    IN  reversed(coeffs)

\* np.polyval(p, x): Horner's rule over p[1..k], x in milliradians
RECURSIVE polyval_upto(_, _, _)
polyval_upto(p, k, x) ==
    IF k = 0 THEN 0 ELSE MulMilli(polyval_upto(p, k - 1, x), x) + p[k]

polyval(p, x) == polyval_upto(p, Len(p), x)

\* the radius polynomial evaluated on coeffs as appended, lowest degree first
_radius_modiolus_poly_unreversed(A, phi) ==
    LET coeffs == [i \in 1..4 |->
                     dot1A(A, Column(coefs_modiolus, i - 1)) \div 100]
    IN  polyval(coeffs, phi)

\* _radius_modiolus_poly(phi): np.polyval(coeffs[::-1], phi), in 1/1000000 mm
_radius_modiolus_poly(A, phi) ==
    LET coeffs == [i \in 1..4 |->
                     dot1A(A, Column(coefs_modiolus, i - 1)) \div 100]
    IN  polyval(reversed(coeffs), phi)

\* _height_poly(phi): np.polyval(coeffs[::-1], phi), in 1/1000000 mm
_height_poly(A, phi) ==
    LET coeffs == [i \in 1..5 |->
                     dot1A(A, Column(coefs_height, i - 1)) \div 100]
    IN  polyval(reversed(coeffs), phi)

\* Taylor series on [0, pi/2]; z in microradians, value in 1/10000.
\* term(k) = term(k-1) * z^2 / ((first+2k-1)(first+2k)), signs alternating.
RECURSIVE series(_, _, _, _)
series(term, z2, n, k) ==
    IF k > 6 \/ term = 0 THEN 0
    ELSE term - series((term * z2) \div (10000 * n * (n + 1)), z2, n + 2, k + 1)

cos_q(z) == series(10000, ((z \div 100) * (z \div 100)) \div 10000, 1, 1)

sin_q(z) == series(z \div 100, ((z \div 100) * (z \div 100)) \div 10000, 2, 1)

\* 2*pi in microradians
TwoPiMicro == 6283185

\* cos of an angle in microradians, value in 1/10000
cos_u(u) ==
    LET y == u % TwoPiMicro
    IN  IF y <= 1570796 THEN cos_q(y)
        ELSE IF y <= 3141593 THEN -cos_q(3141593 - y)
        ELSE IF y <= 4712389 THEN -cos_q(y - 3141593)
        ELSE cos_q(TwoPiMicro - y)

\* sin of an angle in microradians, value in 1/10000
sin_u(u) ==
    LET y == u % TwoPiMicro
    IN  IF y <= 1570796 THEN sin_q(y)
        ELSE IF y <= 3141593 THEN sin_q(3141593 - y)
        ELSE IF y <= 4712389 THEN -sin_q(y - 3141593)
        ELSE -sin_q(TwoPiMicro - y)

\* np.cos(x), x in milliradians, value in 1/10000
cos(x) == cos_u(x * 1000)

\* np.sin(x), x in milliradians, value in 1/10000
sin(x) == sin_u(x * 1000)

\* a length in 1/1000000 mm times a cos/sin, in micrometres
Times(len, c) == ((len \div 1000) * c) \div 10000

CeilDiv(a, b) == -((-a) \div b)

\* variant: floor(stop/step) samples
arange_floor(stop, step) ==
    LET n == stop \div step
    IN  [i \in 1..(IF n > 0 THEN n ELSE 0) |-> (i - 1) * step]

\* the samples 0, step, ... up to and including stop
arange_closed(stop, step) ==
    LET n == stop \div step + 1
    IN  [i \in 1..(IF n > 0 THEN n ELSE 0) |-> (i - 1) * step]

\* np.arange(0, stop, step) for step # 0: ceil(stop/step) samples, none when
\* that is not positive
arange(stop, step) ==
    LET n == CeilDiv(stop, step)
    IN  [i \in 1..(IF n > 0 THEN n ELSE 0) |-> (i - 1) * step]

\* a scala radius that grows from 0.6 at the base to 1.1 at the apex
r_scala_growing(c_length, phi) == (phi * 500) \div c_length + 600

\* Scala radius at phi, in micrometres:
\* (c_length - phi) / c_length * 0.5 + 0.6
r_scala_at(c_length, phi) == ((c_length - phi) * 500) \div c_length + 600

\* a circle centred on the centerline: r_modiolus[i] + r_scala * np.cos(angle)
scala_local_r_centred(r_modiolus_i, r_scala, angle) ==
    r_modiolus_i \div 1000 + (r_scala * cos(angle)) \div 10000

\* generate_geometry line 122:
\* local_r = r_modiolus[i] + r_scala * (np.cos(angle) - 1), in micrometres
scala_local_r(r_modiolus_i, r_scala, angle) ==
    r_modiolus_i \div 1000 + (r_scala * (cos(angle) - 10000)) \div 10000

\* generate_geometry(resolution): the dict returned, or the exception
\* np.arange raises for a zero step
generate_geometry(m, resolution) ==
    IF resolution = 0
    THEN Raise([type |-> "ArangeError", text |-> "division by zero step",
                name |-> "", value |-> 0, lo |-> 0, hi |-> 0])
    ELSE
    LET phi == arange(m.c_length, resolution)
        N == Len(phi)
        r_modiolus == [i \in 1..N |-> _radius_modiolus_poly(m.A, phi[i])]
        centerline ==
            << [i \in 1..N |-> Times(r_modiolus[i], cos(phi[i]))],
               [i \in 1..N |-> Times(r_modiolus[i], sin(phi[i]))],
               [i \in 1..N |-> _height_poly(m.A, phi[i]) \div 1000] >>
        v == arange(TwoPi, resolution)
        M == Len(v)
        local_r(j, i) ==
            scala_local_r(r_modiolus[i], r_scala_at(m.c_length, phi[i]), v[j])
    IN  Ok([ centerline |-> centerline,
             scala |-> [
               x |-> [j \in 1..M |-> [i \in 1..N |->
                        (local_r(j, i) * cos(phi[i])) \div 10000]],
               y |-> [j \in 1..M |-> [i \in 1..N |->
                        (local_r(j, i) * sin(phi[i])) \div 10000]],
               z |-> [j \in 1..M |-> [i \in 1..N |->
                        (r_scala_at(m.c_length, phi[i]) * sin(v[j])) \div 10000
                          + centerline[3][i]]] ],
             phi |-> phi,
             turns |-> [i \in 1..N |-> (phi[i] * 10000) \div TwoPi],
             r_modiolus |-> r_modiolus ])

\* get_point_at_position(turn_fraction), turn_fraction in hundredths
get_point_at_position(m, turn_fraction) ==
    LET phi == (turn_fraction * m.c_length) \div 100
        r == _radius_modiolus_poly(m.A, phi)
    IN  Ok([ position |-> << Times(r, cos(phi)), Times(r, sin(phi)),
                             _height_poly(m.A, phi) \div 1000 >>,
             radius_modiolus |-> r,
             height |-> _height_poly(m.A, phi),
             phi |-> phi,
             turns |-> (phi * 10000) \div TwoPi ])

\* largest s with s*s <= n, for lo <= s <= hi
RECURSIVE isqrt_between(_, _, _)
isqrt_between(n, lo, hi) ==
    IF lo >= hi THEN lo
    ELSE LET mid == (lo + hi + 1) \div 2
         IN  IF mid * mid <= n THEN isqrt_between(n, mid, hi)
             ELSE isqrt_between(n, lo, mid - 1)

\* np.sqrt on a non-negative integer, rounded down
sqrt(n) == isqrt_between(n, 0, 46340)

\* np.linalg.norm of a 3-vector
norm(v) == sqrt(v[1] * v[1] + v[2] * v[2] + v[3] * v[3])

\* np.polyder of a highest-degree-first coefficient list
polyder(p) == [k \in 1..(Len(p) - 1) |-> p[k] * (Len(p) - k)]

\* an integrand that adds the height term when with_height is False
integrand_swapped(A, z, with_height) ==
    LET r == _radius_modiolus_poly(A, z)
        dr_dz == polyval(polyder(get_radius_coeffs(A)), z)
        x_deriv == Times(dr_dz, cos(z)) - Times(r, sin(z))
        y_deriv == Times(dr_dz, sin(z)) + Times(r, cos(z))
        dh_dz == polyval(polyder(get_height_coeffs(A)), z) \div 1000
    IN  IF with_height
        THEN sqrt(x_deriv * x_deriv + y_deriv * y_deriv)
        ELSE sqrt(x_deriv * x_deriv + y_deriv * y_deriv + dh_dz * dh_dz)

\* calculate_length: integrand(z), in micrometres per radian
integrand(A, z, with_height) ==
    LET r == _radius_modiolus_poly(A, z)
        dr_dz == polyval(polyder(get_radius_coeffs(A)), z)
        x_deriv == Times(dr_dz, cos(z)) - Times(r, sin(z))
        y_deriv == Times(dr_dz, sin(z)) + Times(r, cos(z))
        dh_dz == polyval(polyder(get_height_coeffs(A)), z) \div 1000
    IN  IF with_height
        THEN sqrt(x_deriv * x_deriv + y_deriv * y_deriv + dh_dz * dh_dz)
        ELSE sqrt(x_deriv * x_deriv + y_deriv * y_deriv)

\* scipy's quad is adaptive; the model integrates by Simpson's rule on
\* 2*QuadPairs panels
QuadPairs == 4

RECURSIVE simpson_sum(_, _, _, _)
simpson_sum(A, c_length, with_height, k) ==
    IF k < 0 THEN 0
    ELSE LET n == 2 * QuadPairs
             w == IF k = 0 \/ k = n THEN 1 ELSE IF k % 2 = 1 THEN 4 ELSE 2
         IN  w * integrand(A, (k * c_length) \div n, with_height)
               + simpson_sum(A, c_length, with_height, k - 1)

\* calculate_length(with_height), in micrometres
calculate_length(m, with_height) ==
    MulMilli(simpson_sum(m.A, m.c_length, with_height, 2 * QuadPairs), m.c_length)
      \div (6 * QuadPairs)

\* generate_cross_sections / export_csv: radius at phi, in micrometres
radius_at(c_length, phi) == ((c_length - phi) * 500) \div c_length + 600

\* np.linspace(0, 2*stop + 1, num, dtype=int): indices over all the samples
linspace_int_full(stop, num) ==
    [k \in 1..num |->
        IF num = 1 THEN 0 ELSE ((k - 1) * (2 * stop + 1)) \div (num - 1)]

\* np.linspace(0, stop, num, dtype=int)
linspace_int(stop, num) ==
    [k \in 1..num |->
        IF num = 1 THEN 0
        ELSE IF stop >= 0 THEN ((k - 1) * stop) \div (num - 1)
        ELSE -(((k - 1) * (-stop)) \div (num - 1))]

\* generate_cross_sections lines 151-152: n_points = 16 and
\* angles = np.linspace(0, 2*np.pi, n_points+1), with the cos and sin lines
\* 163-164 take of each angle
section_angles ==
    LET n_points == 16
    IN  [k \in 1..(n_points + 1) |->
           LET angle == ((k - 1) * TwoPiMicro) \div n_points
           IN  [cos |-> cos_u(angle), sin |-> sin_u(angle)]]

\* generate_cross_sections(geometry, num_sections): the list of sections, or
\* the IndexError of indexing an empty geometry.  geometry None is
\* generate_geometry(resolution=5).  'angle' is in hundredths of a degree.
generate_cross_sections(m, geometry, num_sections) ==
    LET g == IF geometry.some THEN geometry.val
             ELSE generate_geometry(m, 5000)["value"]
        N == Len(g["phi"])
        half_idx == N \div 2
        section_indices == linspace_int(half_idx - 1, num_sections)
        section(s) ==
            LET idx == section_indices[s]
                phi == g["phi"][(idx % N) + 1]
                center == << g["centerline"][1][(idx % N) + 1],
                             g["centerline"][2][(idx % N) + 1],
                             g["centerline"][3][(idx % N) + 1] >>
                radius == ((m.c_length - phi) * 500) \div m.c_length + 600
                cos_phi == cos(phi)
                sin_phi == sin(phi)
                point(k) ==
                    LET local_r == (radius * (section_angles[k].cos - 10000))
                                     \div 10000
                        local_h == (radius * section_angles[k].sin) \div 10000
                    IN  << center[1] + (local_r * cos_phi) \div 10000,
                           center[2] + (local_r * sin_phi) \div 10000,
                           center[3] + local_h >>
            IN  [center |-> center,
                 radius |-> radius,
                 angle |-> (phi * 18000) \div 3142,
                 phi |-> phi,
                 points |-> [k \in DOMAIN section_angles |-> point(k)]]
    IN  IF num_sections > 0 /\ N = 0
        THEN Raise([type |-> "IndexError", text |-> "index 0 is out of bounds",
                    name |-> "", value |-> 0, lo |-> 0, hi |-> 0])
        ELSE Ok([s \in 1..num_sections |-> section(s)])

----------------------------------------------------------------------------
(* cochlea_export.py                                                       *)

\* the files of a directory: a (name, number) |-> content map
NoFiles == [f \in {} |-> 0]

File(name, k) == <<name, k>>

Put(files, f, content) ==
    [g \in (DOMAIN files) \cup {f} |-> IF g = f THEN content ELSE files[g]]

\* cochlea_parameters.py lines 123-130.  A parameter value saved or loaded
\* is in 1/10000000 (a double has more digits than the six that are
\* written); a number written with '%.6f' is in 1/1000000.

\* '%.6f' % value: the nearest multiple of 1/1000000
format_6f(value) == (value + 5) \div 10

\* float(text) of a number written with six decimals
float_of(micro) == micro * 10

\* a line of a text file: the comment prefix it starts with, its text when
\* it is not numeric, its comma-separated numbers otherwise
TextLine(prefix, text) == [prefix |-> prefix, text |-> text, fields |-> << >>]

NumberLine(fields) == [prefix |-> "", text |-> "", fields |-> fields]

FileNotFoundError(name) ==
    [type |-> "FileNotFoundError", text |-> name,
     name |-> "", value |-> 0, lo |-> 0, hi |-> 0]

\* save_parameters(parameters, filename): np.savetxt of a 1-D array writes
\* the header after comments='# ' and one value per line
save_parameters(dir, parameters, filename) ==
    IF ~dir.exists
    THEN [dir |-> dir, out |-> Raise(FileNotFoundError(filename))]
    ELSE [dir |-> [exists |-> TRUE,
                   files |-> Put(dir.files, File(filename, 0),
                       [kind |-> "parameters",
                        lines |-> <<TextLine("# ", "A1, B1, A2, B2")>>
                                    \o [i \in 1..Len(parameters) |->
                                          NumberLine(<<format_6f(parameters[i])>>)]])],
          out |-> Ok(<< >>)]

\* np.loadtxt without comment handling: every line is data
loadtxt_no_comments(lines) ==
    IF \E k \in 1..Len(lines) : lines[k].text # ""
    THEN Raise(ValueError("could not convert string to float"))
    ELSE Ok([k \in 1..Len(lines) |-> float_of(lines[k].fields[1])])

\* np.loadtxt(filename, delimiter=','): a line is cut at '#', empty lines
\* are skipped, the others are split at ',' and converted; rows of one
\* column give a 1-D array
loadtxt(lines) ==
    LET IsComment(k) == lines[k].prefix \in {"#", "# "}
        data == SelectSeq([k \in 1..Len(lines) |-> k], LAMBDA k : ~IsComment(k))
    IN  IF \E k \in 1..Len(data) : lines[data[k]].text # ""
        THEN Raise(ValueError("could not convert string to float"))
        ELSE Ok([k \in 1..Len(data) |-> float_of(lines[data[k]].fields[1])])

\* load_parameters(filename)
load_parameters(dir, filename) ==
    IF ~dir.exists \/ File(filename, 0) \notin DOMAIN dir.files
    THEN Raise(FileNotFoundError(filename))
    ELSE loadtxt(dir.files[File(filename, 0)].lines)

\* row[j] of a row of N elements with Python's indexing: 0-based, negative
\* from the end
At(row, N, j) == row[(j % N) + 1]

\* the largest power of two that is at most m, for m >= 1
RECURSIVE binade(_)
binade(m) == IF m < 2 THEN 1 ELSE 2 * binade(m \div 2)

\* Double-precision rounding in position * (len(phi) - 1).  np.linspace(0,
\* 1, num) gives position = k * step with step = 1.0 / d, d = num - 1, and
\* for the pairs <<d, k>> below that product is a double just under k / d,
\* short of it by a relative 1 / (t * 2^53), t = t_num / t_den.  When the exact
\* product m = k * (N - 1) / d is an integer, the double product rounds
\* to the double below m exactly when m / binade(m) > t.  Rows are
\* <<d, k, t_num, t_den>>, for d up to 19 (num up to 20); for the other
\* fractions the product never rounds below m.
RoundsBelow ==
    { <<6, 5, 5, 4>>, <<7, 5, 5, 6>>, <<9, 7, 7, 8>>, <<11, 3, 3, 2>>,
      <<11, 6, 3, 2>>, <<12, 5, 5, 4>>, <<12, 7, 7, 8>>, <<12, 10, 5, 4>>,
      <<14, 5, 5, 6>>, <<14, 9, 9, 8>>, <<14, 10, 5, 6>>, <<14, 13, 13, 10>>,
      <<15, 11, 11, 7>>, <<17, 3, 6, 5>>, <<17, 6, 6, 5>>, <<17, 12, 6, 5>>,
      <<17, 13, 13, 8>>, <<18, 7, 7, 8>>, <<18, 11, 11, 10>>,
      <<18, 14, 7, 8>>, <<18, 15, 5, 4>>, <<19, 13, 13, 16>>,
      <<19, 17, 17, 18>> }

\* the index floor(k * (N - 1) / (num_cross_sections - 1)) of exact arithmetic
section_idx_exact(k, num_cross_sections, N) ==
    IF num_cross_sections = 1 THEN 0
    ELSE (k * (N - 1)) \div (num_cross_sections - 1)

\* export_csv line 119: idx = int(position * (len(phi) - 1)), position the
\* k-th (0-based) of np.linspace(0, 1, num_cross_sections), whose last
\* value is exactly 1.0
section_idx(k, num_cross_sections, N) ==
    LET d == num_cross_sections - 1
        m == (k * (N - 1)) \div d
    IN  IF num_cross_sections = 1 THEN 0
        ELSE IF k = d THEN N - 1
        ELSE IF /\ (k * (N - 1)) % d = 0 /\ m >= 1
                /\ \E t \in RoundsBelow :
                      /\ t[1] = d /\ t[2] = k
                      /\ m * t[4] > t[3] * binade(m)
        THEN m - 1
        ELSE m

\* export_csv lines 132-153: the finite difference at sample idx
tangent_at(geometry, idx, centerline_mode) ==
    LET N == Len(geometry["phi"])
        next_idx == IF idx < N - 1 THEN idx + 1 ELSE idx
        prev_idx == IF idx < N - 1 THEN idx ELSE idx - 1
        d(c) == At(geometry["centerline"][c], N, next_idx)
                  - At(geometry["centerline"][c], N, prev_idx)
    IN  << d(1), d(2), IF centerline_mode = "3D" THEN d(3) ELSE 0 >>

\* v / np.linalg.norm(v): components in 1/10000; a zero norm divides 0 by 0
\* and numpy returns nan in every component (a warning, no exception).
\* A vector of nan is the tuple without numbers.  The integer square root
\* of a short vector's length is coarse, so the quotient is divided once
\* more by its own length, which is known to 1 part in 10000.
NaN3 == << >>

IsNaN3(v) == Len(v) = 0

normalized(v) ==
    IF IsNaN3(v) \/ norm(v) = 0 THEN NaN3
    ELSE LET n == norm(v)
             w == << (v[1] * 10000) \div n, (v[2] * 10000) \div n,
                     (v[3] * 10000) \div n >>
             nw == norm(w)
         IN  << (w[1] * 10000) \div nw, (w[2] * 10000) \div nw,
                (w[3] * 10000) \div nw >>

\* np.cross of two vectors in 1/10000, result in 1/10000
cross(a, b) ==
    IF IsNaN3(a) \/ IsNaN3(b) THEN NaN3
    ELSE << (a[2] * b[3] - a[3] * b[2]) \div 10000,
            (a[3] * b[1] - a[1] * b[3]) \div 10000,
            (a[1] * b[2] - a[2] * b[1]) \div 10000 >>

Abs(x) == IF x < 0 THEN -x ELSE x

\* lines 155-164 with world-Z as the reference axis whatever the tangent
frame_world_z(raw_tangent) ==
    LET tangent == normalized(raw_tangent)
        perp1 == normalized(cross(<<0, 0, 10000>>, tangent))
        perp2 == normalized(cross(tangent, perp1))
    IN  [tangent |-> tangent, perp1 |-> perp1, perp2 |-> perp2]

\* export_csv lines 155-164: tangent, perp1, perp2 from the raw difference.
\* abs(nan) < 0.9 is False.
frame(raw_tangent) ==
    LET tangent == normalized(raw_tangent)
        perp1 == normalized(
                   IF ~IsNaN3(tangent) /\ Abs(tangent[3]) < 9000
                   THEN cross(<<0, 0, 10000>>, tangent)
                   ELSE cross(<<10000, 0, 0>>, tangent))
        perp2 == normalized(cross(tangent, perp1))
    IN  [tangent |-> tangent, perp1 |-> perp1, perp2 |-> perp2]

\* export_csv line 172: n_circle_points = 60
n_circle_points == 60

\* np.linspace(0, 2*np.pi, n_circle_points+1, endpoint=False)
angles_open ==
    [k \in 1..(n_circle_points + 1) |->
       LET angle == ((k - 1) * TwoPiMicro) \div (n_circle_points + 1)
       IN  [cos |-> cos_u(angle), sin |-> sin_u(angle)]]

\* export_csv line 173: angles = np.linspace(0, 2*np.pi, n_circle_points+1),
\* with the cos and sin line 177-178 take of each angle
angles ==
    [k \in 1..(n_circle_points + 1) |->
       LET angle == ((k - 1) * TwoPiMicro) \div n_circle_points
       IN  [cos |-> cos_u(angle), sin |-> sin_u(angle)]]

\* rings that keep the center's height in 2D mode
ring_rows_at_height(center, radius, fr, centerline_mode) ==
    LET row(k) ==
            LET local_x == (radius * angles[k].cos) \div 10000
                local_y == (radius * angles[k].sin) \div 10000
            IN  IF IsNaN3(fr.perp1) \/ IsNaN3(fr.perp2)
                THEN <<"nan", "nan", "nan">>
                ELSE [c \in 1..3 |->
                        100 * (center[c] + (local_x * fr.perp1[c]) \div 10000
                                         + (local_y * fr.perp2[c]) \div 10000)]
    IN  [k \in 1..(n_circle_points + 1) |-> row(k)]

\* export_csv lines 173-190: the rows written to one cross-section file, in
\* 1/1000000 cm ("%.6f" of the value times 0.1)
ring_rows(center, radius, fr, centerline_mode) ==
    LET c3 == IF centerline_mode = "2D" THEN <<center[1], center[2], 0>>
              ELSE center
        row(k) ==
            LET local_x == (radius * angles[k].cos) \div 10000
                local_y == (radius * angles[k].sin) \div 10000
            IN  IF IsNaN3(fr.perp1) \/ IsNaN3(fr.perp2)
                THEN <<"nan", "nan", "nan">>
                ELSE [c \in 1..3 |->
                        100 * (c3[c] + (local_x * fr.perp1[c]) \div 10000
                                     + (local_y * fr.perp2[c]) \div 10000)]
    IN  [k \in 1..(n_circle_points + 1) |-> row(k)]

\* export_csv lines 93-111: the rows of centerline.csv
centerline_rows(geometry, centerline_mode) ==
    LET n_points == 100
        N == Len(geometry["centerline"][1])
        indices == linspace_int(N - 1, n_points)
    IN  [k \in 1..n_points |->
          << 100 * At(geometry["centerline"][1], N, indices[k]),
             100 * At(geometry["centerline"][2], N, indices[k]),
             IF centerline_mode = "3D"
             THEN 100 * At(geometry["centerline"][3], N, indices[k]) ELSE 0 >>]

\* a section whose center, phi and radius are read after idx was moved back
\* for the difference at the last sample
section_at_shifted(m, geometry, centerline_mode, idx) ==
    LET N == Len(geometry["phi"])
        at == IF idx < N - 1 THEN idx ELSE idx - 1
        phi == At(geometry["phi"], N, at)
        center == << At(geometry["centerline"][1], N, at),
                     At(geometry["centerline"][2], N, at),
                     At(geometry["centerline"][3], N, at) >>
        radius == radius_at(m.c_length, phi)
        fr == frame(tangent_at(geometry, idx, centerline_mode))
    IN  [kind |-> "cross_section",
         nan |-> IsNaN3(fr.perp1) \/ IsNaN3(fr.perp2),
         rows |-> ring_rows(center, radius, fr, centerline_mode)]

\* export_csv lines 117-190: the file written for the section at sample idx
section_at(m, geometry, centerline_mode, idx) ==
    LET N == Len(geometry["phi"])
        phi == At(geometry["phi"], N, idx)
        center == << At(geometry["centerline"][1], N, idx),
                     At(geometry["centerline"][2], N, idx),
                     At(geometry["centerline"][3], N, idx) >>
        radius == radius_at(m.c_length, phi)
        fr == frame(tangent_at(geometry, idx, centerline_mode))
    IN  [kind |-> "cross_section",
         nan |-> IsNaN3(fr.perp1) \/ IsNaN3(fr.perp2),
         rows |-> ring_rows(center, radius, fr, centerline_mode)]

\* export_csv lines 113-190: the loop over section_positions, one file
\* cross_section_<k>.csv per position
write_sections(files, m, geometry, centerline_mode, num_cross_sections) ==
    LET N == Len(geometry["phi"])
        section(k) ==
            section_at(m, geometry, centerline_mode,
                       section_idx(k - 1, num_cross_sections, N))
        written == { File("cross_section", k) : k \in 1..num_cross_sections }
    IN  [f \in (DOMAIN files) \cup written |->
           IF f \in written THEN section(f[2]) ELSE files[f]]

\* export_csv: the directory's files afterwards and the value returned or
\* the exception raised.  An empty geometry fails at the first index; a
\* missing directory fails at open().
export_csv(dir, m, geometry, centerline_mode, num_cross_sections) ==
    IF Len(geometry["phi"]) = 0
    THEN [dir |-> dir,
          out |-> Raise([type |-> "IndexError", text |-> "index 0 is out of bounds",
                         name |-> "", value |-> 0, lo |-> 0, hi |-> 0])]
    ELSE IF ~dir.exists
    THEN [dir |-> dir,
          out |-> Raise([type |-> "FileNotFoundError", text |-> "centerline.csv",
                         name |-> "", value |-> 0, lo |-> 0, hi |-> 0])]
    ELSE
    LET with_centerline ==
            Put(dir.files, File("centerline.csv", 0),
                [kind |-> "centerline",
                 rows |-> centerline_rows(geometry, centerline_mode)])
    IN  [dir |-> [exists |-> TRUE,
                  files |-> write_sections(with_centerline, m, geometry,
                                centerline_mode, num_cross_sections)],
         out |-> Ok([centerline |-> File("centerline.csv", 0),
                     cross_sections |->
                        [k \in 1..num_cross_sections |-> File("cross_section", k)]])]

\* export_json: cochlea_parameters.json
export_json(dir, m, centerline_mode, num_cross_sections) ==
    [dir |-> [exists |-> TRUE,
              files |-> Put(dir.files, File("cochlea_parameters.json", 0),
                  [kind |-> "json",
                   parameters |-> m.A,
                   turns |-> m.n_turns,
                   length_with_height |-> calculate_length(m, TRUE),
                   length_without_height |-> calculate_length(m, FALSE),
                   centerline_mode |-> centerline_mode,
                   centerline_points |-> 100,
                   cross_sections |-> num_cross_sections,
                   points_per_circle |-> 61])],
     out |-> Ok(File("cochlea_parameters.json", 0))]

----------------------------------------------------------------------------
(* A library session: a caller either calls the parameter provider once, or *)
(* builds one CochleaModel and then makes up to MaxCalls calls of its       *)
(* methods and of the exporter's export_csv.                                *)

NoCall == [op |-> "none", arg |-> << >>, out |-> Ok(<< >>)]

NoArgs == [mode |-> "", parameters |-> None, no_plot |-> FALSE,
           save_plots |-> FALSE, keep_existing |-> FALSE]

NoLocals == [centerline_mode |-> "", num_cross_sections |-> 0]

NoDir == [exists |-> FALSE, files |-> NoFiles]

EmptyDir == [exists |-> TRUE, files |-> NoFiles]

\* 4-element arrays: each value at a bound or OutStep outside it
FourValues ==
    { <<a1, b1, a2, b2>> :
        a1 \in {bounds[1][1] - OutStep, bounds[1][1], bounds[1][2], bounds[1][2] + OutStep},
        b1 \in {bounds[2][1] - OutStep, bounds[2][1], bounds[2][2], bounds[2][2] + OutStep},
        a2 \in {bounds[3][1] - OutStep, bounds[3][1], bounds[3][2], bounds[3][2] + OutStep},
        b2 \in {bounds[4][1] - OutStep, bounds[4][1], bounds[4][2], bounds[4][2] + OutStep} }

\* arrays of another length, of in-range (5.00) or out-of-range (3.00) values
OtherLengths ==
    { [i \in 1..n |-> v] : n \in (0..MaxArity) \ {4}, v \in {300, 500} }

ParameterInputs == FourValues \cup OtherLengths

\* the arrays a caller builds a model from: all at the lower bounds, all at
\* the upper bounds, mixed, one value outside, a wrong length
CustomInputs ==
    { [i \in 1..4 |-> bounds[i][1]], [i \in 1..4 |-> bounds[i][2]],
      <<bounds[1][1], bounds[2][2], bounds[3][2], bounds[4][1]>>,
      <<bounds[1][1] - OutStep, bounds[2][1], bounds[3][1], bounds[4][1]>>,
      <<bounds[1][2], bounds[2][2], bounds[3][2], bounds[4][2] + OutStep>>,
      <<500, 500, 300>> }

Modes == {"mean", "random", "custom", "median"}

\* resolutions in milliradians: negative, zero, the callers' 5, coarser than
\* the spiral, finer, one full turn, and the spiral's own length
Resolutions(m) == {-100, 0, 2000, 5000, 20000, TwoPi, m.c_length}

\* turn fractions in hundredths
TurnFractions == {-50, -1, 0, 50, 100, 101, 150}

LibInit ==
    /\ model = NoModel
    /\ result = NoCall
    /\ fs \in {NoDir, EmptyDir}
    /\ pc = "library"
    /\ args = NoArgs
    /\ locals = NoLocals
    /\ ret = None
    /\ calls = 0

\* param_manager.validate_parameters(p)
Validate ==
    /\ pc = "library" /\ result.op = "none"
    /\ \E p \in ParameterInputs :
         result' = [op |-> "validate_parameters", arg |-> p,
                    out |-> validate_parameters(p)]
    /\ UNCHANGED <<model, fs, pc, args, locals, ret, calls>>

\* param_manager.generate_parameters(mode)
Generate ==
    /\ pc = "library" /\ result.op = "none"
    /\ \E mode \in Modes :
       \E draws \in (IF mode = "random" THEN Draws ELSE {NoDraws}) :
       \E out \in (IF mode = "random"
                   THEN {Ok(generate_parameters_drawn(draws))}
                   ELSE generate_parameters(mode)) :
         result' = [op |-> "generate_parameters", arg |-> mode,
                    draws |-> draws, out |-> out]
    /\ UNCHANGED <<model, fs, pc, args, locals, ret, calls>>

\* model = CochleaModel(mode=mode) or CochleaModel(parameters=p)
Construct ==
    /\ pc = "library" /\ result.op = "none"
    /\ \E call \in {[parameters |-> None, mode |-> mode] : mode \in Modes}
                 \cup {[parameters |-> Some(p), mode |-> "mean"] : p \in CustomInputs} :
       LET parameters == call.parameters
           mode == call.mode
       IN
       \E out \in CochleaModel_init(parameters, mode) :
         /\ result' = [op |-> "CochleaModel",
                       arg |-> [parameters |-> parameters, mode |-> mode],
                       out |-> IF out.status = "ok" THEN Ok(TRUE) ELSE out]
         /\ model' = IF out.status = "ok" THEN out.value ELSE model
    /\ UNCHANGED <<fs, pc, args, locals, ret, calls>>

\* model.generate_geometry(resolution)
GenerateGeometry ==
    /\ pc = "library" /\ model.built /\ calls < MaxCalls
    /\ calls' = calls + 1
    /\ \E resolution \in Resolutions(model) :
         result' = [op |-> "generate_geometry", arg |-> resolution,
                    out |-> generate_geometry(model, resolution)]
    /\ UNCHANGED <<model, fs, pc, args, locals, ret>>

\* a get_point_at_position that keeps the angle it computed in self.c_length
GetPoint_storing_phi ==
    /\ pc = "library" /\ model.built /\ calls < MaxCalls
    /\ calls' = calls + 1
    /\ \E turn_fraction \in TurnFractions :
         /\ result' = [op |-> "get_point_at_position", arg |-> turn_fraction,
                       out |-> get_point_at_position(model, turn_fraction)]
         /\ model' = [model EXCEPT
                        !.c_length = (turn_fraction * model.c_length) \div 100]
    /\ UNCHANGED <<fs, pc, args, locals, ret>>

\* model.get_point_at_position(turn_fraction)
GetPoint ==
    /\ pc = "library" /\ model.built /\ calls < MaxCalls
    /\ calls' = calls + 1
    /\ \E turn_fraction \in TurnFractions :
         result' = [op |-> "get_point_at_position", arg |-> turn_fraction,
                    out |-> get_point_at_position(model, turn_fraction)]
    /\ UNCHANGED <<model, fs, pc, args, locals, ret>>

\* model.calculate_length(with_height)
CalculateLength ==
    /\ pc = "library" /\ model.built /\ calls < MaxCalls
    /\ calls' = calls + 1
    /\ \E with_height \in BOOLEAN :
         result' = [op |-> "calculate_length", arg |-> with_height,
                    out |-> Ok(calculate_length(model, with_height))]
    /\ UNCHANGED <<model, fs, pc, args, locals, ret>>

\* model.get_radius_coeffs() or model.get_height_coeffs()
GetCoeffs ==
    /\ pc = "library" /\ model.built /\ calls < MaxCalls
    /\ calls' = calls + 1
    /\ \/ result' = [op |-> "get_radius_coeffs", arg |-> << >>,
                      out |-> Ok(get_radius_coeffs(model.A))]
       \/ result' = [op |-> "get_height_coeffs", arg |-> << >>,
                      out |-> Ok(get_height_coeffs(model.A))]
    /\ UNCHANGED <<model, fs, pc, args, locals, ret>>

\* the calls of export_csv a session makes: the resolution of the
\* geometry in milliradians, the centerline mode and
\* the number of cross-sections
ExportInputs ==
    { <<5000, "3D", 2>>, <<5000, "2D", 2>>, <<20000, "3D", 2>>,
      <<20000, "2D", 2>>, <<900, "3D", 7>>, <<900, "2D", 3>> }

\* CochleaExporter(model).export_csv(export_dir,
\*     model.generate_geometry(resolution), centerline_mode, n)
ExportCsv ==
    /\ pc = "library" /\ model.built /\ calls < MaxCalls
    /\ calls' = calls + 1
    /\ \E input \in ExportInputs :
         LET resolution == input[1]
             centerline_mode == input[2]
             n == input[3]
             r == export_csv(fs, model,
                             generate_geometry(model, resolution)["value"],
                             centerline_mode, n)
         IN  /\ fs' = r.dir
             /\ result' = [op |-> "export_csv",
                           arg |-> [resolution |-> resolution,
                                    centerline_mode |-> centerline_mode,
                                    num_cross_sections |-> n],
                           out |-> r.out]
    /\ UNCHANGED <<model, pc, args, locals, ret>>

\* model.generate_cross_sections(geometry, num_sections), geometry None or
\* model.generate_geometry(resolution)
GenerateCrossSections ==
    /\ pc = "library" /\ model.built /\ calls < MaxCalls
    /\ calls' = calls + 1
    /\ \E resolution \in {0, 2000, 20000} : \E num_sections \in {1, 3, 10} :
         LET geometry == IF resolution = 0 THEN None
                         ELSE Some(generate_geometry(model, resolution)["value"])
         IN  result' = [op |-> "generate_cross_sections",
                        arg |-> [resolution |-> resolution,
                                 num_sections |-> num_sections],
                        out |-> generate_cross_sections(model, geometry,
                                                        num_sections)]
    /\ UNCHANGED <<model, fs, pc, args, locals, ret>>

\* centerline differences (micrometres) whose unit tangents have |z| of 0,
\* 0.5, 0.89, just below and just above 0.9, 0.91 and 1, and the zero vector
TangentInputs ==
    { <<x, y, z>> : x \in {-435, 0, 436}, y \in {-200, 0}, z \in {-900, 0, 900} }
      \cup { <<866, 0, 500>>, <<456, 0, 890>>, <<415, 0, -910>>,
             <<0, 0, 1000>>, <<1000, 0, 0>>, <<0, 7, 0>>, <<3, -2, 1>> }

\* export_csv lines 155-164 on one centerline difference
Frame ==
    /\ pc = "library" /\ result.op = "none"
    /\ \E raw_tangent \in TangentInputs :
         result' = [op |-> "frame", arg |-> raw_tangent,
                    out |-> Ok(frame(raw_tangent))]
    /\ UNCHANGED <<model, fs, pc, args, locals, ret, calls>>

\* valid parameter vectors in 1/10000000: the mean, a random draw with more
\* than six decimals, the lower and the upper bounds
SavedInputs ==
    { [i \in 1..4 |-> means[i] * 100000],
      <<59712346, 39500004, 32600006, 28499999>>,
      [i \in 1..4 |-> bounds[i][1] * 100000],
      [i \in 1..4 |-> bounds[i][2] * 100000] }

\* param_manager.save_parameters(parameters, 'parameters.txt')
SaveParameters ==
    /\ pc = "library" /\ result.op = "none"
    /\ \E parameters \in SavedInputs :
         LET r == save_parameters(fs, parameters, "parameters.txt")
         IN  /\ fs' = r.dir
             /\ result' = [op |-> "save_parameters", arg |-> parameters,
                           out |-> r.out]
    /\ UNCHANGED <<model, pc, args, locals, ret, calls>>

\* param_manager.load_parameters('parameters.txt') after the save; arg keeps
\* the vector that was saved
LoadParameters ==
    /\ pc = "library" /\ result.op = "save_parameters"
    /\ result' = [op |-> "load_parameters", arg |-> result.arg,
                  out |-> load_parameters(fs, "parameters.txt")]
    /\ UNCHANGED <<model, fs, pc, args, locals, ret, calls>>

LibNext ==
    \/ Validate
    \/ Generate
    \/ Construct
    \/ GenerateGeometry
    \/ GetPoint
    \/ CalculateLength
    \/ GetCoeffs
    \/ GenerateCrossSections
    \/ ExportCsv
    \/ Frame
    \/ SaveParameters
    \/ LoadParameters

Spec == LibInit /\ [][LibNext]_vars

----------------------------------------------------------------------------
(* main.py: one run of the command line program, statement by statement.   *)
(* export_all's two input() loops are steps of their own: each line typed   *)
(* is an input of the run.                                                  *)

\* an export directory left by an earlier run
OldDir ==
    [exists |-> TRUE,
     files |-> Put(Put(NoFiles, File("centerline.csv", 0), [kind |-> "old"]),
                   File("notes.txt", 0), [kind |-> "old"])]

PlotFiles ==
    { File("plots/parameters.png", 0), File("plots/3d_model.png", 0),
      File("plots/cross_sections.png", 0) }

\* main lines 62-69: plot_dir.mkdir(parents=True, exist_ok=True) and the
\* three savefig calls
save_plots(dir) ==
    [exists |-> TRUE,
     files |-> [f \in (DOMAIN dir.files) \cup PlotFiles |->
                  IF f \in PlotFiles THEN [kind |-> "png"] ELSE dir.files[f]]]

\* export_all lines 27-34: shutil.rmtree of an existing directory when
\* replace_existing, then mkdir(exist_ok=True)
prepare_dir(dir, replace_existing) ==
    IF dir.exists /\ replace_existing THEN EmptyDir
    ELSE [exists |-> TRUE, files |-> dir.files]

\* int(num_input) for the lines typed in the model; None is ValueError
int_of(text) ==
    IF text = "1" THEN Some(1)
    ELSE IF text = "2" THEN Some(2)
    ELSE IF text = "20" THEN Some(20)
    ELSE IF text = "21" THEN Some(21)
    ELSE None

\* the lines typed at the two prompts; "EOF" is input() raising EOFError
ModeLines == {"1", "2", "3", "EOF"}

CountLines == {"", "1", "2", "20", "21", "abc", "EOF"}

EOFError ==
    [type |-> "EOFError", text |-> "EOF when reading a line",
     name |-> "", value |-> 0, lo |-> 0, hi |-> 0]

MainInit ==
    /\ model = NoModel
    /\ result = NoCall
    /\ fs \in {NoDir, OldDir}
    /\ pc = "parse_args"
    /\ args = NoArgs
    /\ locals = NoLocals
    /\ ret = None
    /\ calls = 0

\* an except clause that reports the error and falls through to return 0
Fails_returning_0(e) ==
    /\ result' = [op |-> "main", arg |-> pc, out |-> Raise(e)]
    /\ pc' = "done"
    /\ ret' = Some(0)

\* main lines 89-91: except Exception: return 1
Fails(e) ==
    /\ result' = [op |-> "main", arg |-> pc, out |-> Raise(e)]
    /\ pc' = "done"
    /\ ret' = Some(1)

\* main lines 36-39 with only the first test
invalid_combination_custom_only(mode, parameters) ==
    mode = "custom" /\ ~parameters.some

\* main lines 36-39: the two combinations parser.error rejects
invalid_combination(mode, parameters) ==
    \/ (mode = "custom" /\ ~parameters.some)
    \/ (mode # "custom" /\ parameters.some)

\* main lines 19-39: parse_args and the two parser.error checks (exit 2)
ParseArgs ==
    /\ pc = "parse_args"
    /\ \E mode \in {"mean", "random", "custom"} :
       \E parameters \in {None, Some(means), Some(<<300, 395, 326, 285>>)} :
       \E no_plot \in BOOLEAN, save \in BOOLEAN, keep_existing \in BOOLEAN :
         /\ args' = [mode |-> mode, parameters |-> parameters, no_plot |-> no_plot,
                     save_plots |-> save, keep_existing |-> keep_existing]
         /\ IF invalid_combination(mode, parameters)
            THEN pc' = "exit" /\ ret' = Some(2)
            ELSE pc' = "create_model" /\ ret' = ret
    /\ UNCHANGED <<model, result, fs, locals, calls>>

\* main lines 46-50
CreateModel ==
    /\ pc = "create_model"
    /\ \E out \in CochleaModel_init(
                    IF args.mode = "custom" THEN args.parameters ELSE None,
                    IF args.mode = "custom" THEN "mean" ELSE args.mode) :
         IF out.status = "ok"
         THEN /\ model' = out.value
              /\ pc' = "visualize"
              /\ UNCHANGED <<result, ret>>
         ELSE /\ Fails(out.error)
              /\ UNCHANGED model
    /\ UNCHANGED <<fs, args, locals, calls>>

\* an exception raised by one of the three plotting calls, before any
\* plot is saved
PlotError ==
    [type |-> "OSError", text |-> "plotting failed",
     name |-> "", value |-> 0, lo |-> 0, hi |-> 0]

\* main lines 52-73: the three plots, saved when --save-plots, then shown;
\* with plotting enabled the plotting calls may raise
Visualize ==
    /\ pc = "visualize"
    /\ \/ /\ fs' = IF ~args.no_plot /\ args.save_plots THEN save_plots(fs)
                    ELSE fs
          /\ pc' = "export_all"
          /\ UNCHANGED <<result, ret>>
       \/ /\ ~args.no_plot
          /\ Fails(PlotError)
          /\ UNCHANGED fs
    /\ UNCHANGED <<model, args, locals, calls>>

\* main line 79, export_all lines 27-34
PrepareDir ==
    /\ pc = "export_all"
    /\ fs' = prepare_dir(fs, ~args.keep_existing)
    /\ pc' = "ask_mode"
    /\ UNCHANGED <<model, result, args, locals, ret, calls>>

\* export_all lines 42-56: one pass of the first loop
AskMode ==
    /\ pc = "ask_mode"
    /\ \E choice \in ModeLines :
         IF choice = "EOF"
         THEN Fails(EOFError) /\ UNCHANGED locals
         ELSE /\ locals' = IF choice = "1" THEN [locals EXCEPT !.centerline_mode = "3D"]
                           ELSE IF choice = "2" THEN [locals EXCEPT !.centerline_mode = "2D"]
                           ELSE locals
              /\ pc' = IF choice \in {"1", "2"} THEN "ask_count" ELSE pc
              /\ UNCHANGED <<result, ret>>
    /\ UNCHANGED <<model, fs, args, calls>>

\* a second loop that leaves on every integer, whatever its value
AskCount_unchecked ==
    /\ pc = "ask_count"
    /\ \E num_input \in CountLines :
         IF num_input = "EOF"
         THEN Fails(EOFError) /\ UNCHANGED locals
         ELSE /\ locals' = IF num_input = "" THEN [locals EXCEPT !.num_cross_sections = 5]
                           ELSE IF int_of(num_input).some
                           THEN [locals EXCEPT !.num_cross_sections = int_of(num_input).val]
                           ELSE locals
              /\ pc' = IF num_input = "" \/ int_of(num_input).some
                       THEN "write_files" ELSE pc
              /\ UNCHANGED <<result, ret>>
    /\ UNCHANGED <<model, fs, args, calls>>

\* export_all lines 59-73: one pass of the second loop; int() assigns
\* num_cross_sections before the range test
AskCount ==
    /\ pc = "ask_count"
    /\ \E num_input \in CountLines :
         IF num_input = "EOF"
         THEN Fails(EOFError) /\ UNCHANGED locals
         ELSE /\ locals' = IF num_input = "" THEN [locals EXCEPT !.num_cross_sections = 5]
                           ELSE IF int_of(num_input).some
                           THEN [locals EXCEPT !.num_cross_sections = int_of(num_input).val]
                           ELSE locals
              /\ pc' = IF num_input = ""
                          \/ ( /\ int_of(num_input).some
                               /\ 2 <= int_of(num_input).val
                               /\ int_of(num_input).val <= 20 )
                       THEN "write_files" ELSE pc
              /\ UNCHANGED <<result, ret>>
    /\ UNCHANGED <<model, fs, args, calls>>

\* export_all lines 78-86: generate_geometry(0.05), export_csv, export_json
WriteFiles ==
    /\ pc = "write_files"
    /\ LET geometry == generate_geometry(model, 50)["value"]
           csv == export_csv(fs, model, geometry, locals.centerline_mode,
                             locals.num_cross_sections)
           json == export_json(csv.dir, model, locals.centerline_mode,
                               locals.num_cross_sections)
       IN  IF csv.out.status = "ok"
           THEN /\ fs' = json.dir
                /\ pc' = "statistics"
                /\ UNCHANGED <<result, ret>>
           ELSE /\ fs' = csv.dir
                /\ Fails(csv.out.error)
    /\ UNCHANGED <<model, args, locals, calls>>

\* main lines 82-93: the lengths are computed and printed; return 0
Statistics ==
    /\ pc = "statistics"
    /\ result' = [op |-> "main", arg |-> pc,
                  out |-> Ok(<<model.n_turns, calculate_length(model, TRUE),
                               calculate_length(model, FALSE)>>)]
    /\ pc' = "done"
    /\ ret' = Some(0)
    /\ UNCHANGED <<model, fs, args, locals, calls>>

MainNext ==
    \/ ParseArgs
    \/ CreateModel
    \/ Visualize
    \/ PrepareDir
    \/ AskMode
    \/ AskCount
    \/ WriteFiles
    \/ Statistics

MainSpec == MainInit /\ [][MainNext]_vars

----------------------------------------------------------------------------
(* Properties.                                                             *)

InBounds(A) ==
    /\ Len(A) = 4
    /\ \A i \in 1..4 : bounds[i][1] <= A[i] /\ A[i] <= bounds[i][2]

\* the fields of a 4-element array that lie outside their bounds
Offending(p) == {i \in 1..4 : p[i] < bounds[i][1] \/ p[i] > bounds[i][2]}

Least(S) == CHOOSE i \in S : \A j \in S : i <= j

\* C1: every CochleaModel that finishes construction (mode 'mean', mode
\* 'random' or caller-supplied parameters) holds A1,B1,A2,B2 within their
\* anatomical bounds; if a value is outside, construction fails and no model
\* exists.
C1_ModelWithinBounds ==
    /\ model.built => InBounds(model.A)
    /\ (result.op = "CochleaModel" /\ result.out.status = "raise") => ~model.built

\* C2: validate_parameters on a 4-element input raises exactly when at least
\* one value lies outside its inclusive bounds; the error names the first
\* offending field in the order A1, B1, A2, B2 with that field's (min, max);
\* with all four within bounds (endpoints included) it returns True.
C2_ValidateBounds ==
    (result.op = "validate_parameters" /\ Len(result.arg) = 4) =>
        LET bad == Offending(result.arg)
        IN  /\ (bad # {}) <=> (result.out.status = "raise")
            /\ bad # {} =>
                 /\ result.out.error.text = "is outside reasonable bounds"
                 /\ result.out.error.name = param_names[Least(bad)]
                 /\ result.out.error.lo = bounds[Least(bad)][1]
                 /\ result.out.error.hi = bounds[Least(bad)][2]
            /\ bad = {} => (result.out.status = "ok" /\ result.out.value = TRUE)

\* C2 happens: B1 and B2 are both outside, A1 is an endpoint, and B1 is named
C2_Witness ==
    /\ result.op = "validate_parameters" /\ Len(result.arg) = 4
    /\ result.arg[1] = bounds[1][2]
    /\ Offending(result.arg) = {2, 4}
    /\ result.out.status = "raise"
    /\ result.out.error.name = "B1"

\* C3: validate_parameters fails with the arity error for every input whose
\* length is not exactly 4, and that check comes before the bound checks: a
\* wrong-length input with out-of-bounds values is still an arity error.
C3_ArityFirst ==
    (result.op = "validate_parameters" /\ Len(result.arg) # 4) =>
        /\ result.out.status = "raise"
        /\ result.out.error.text = "Parameters must be a 4-element array"
        /\ result.out.error.name = ""

\* C3 happens: five values, the first of them below A1's bound
C3_Witness ==
    /\ result.op = "validate_parameters"
    /\ Len(result.arg) = 5
    /\ result.arg[1] < bounds[1][1]
    /\ result.out.status = "raise"
    /\ result.out.error.text = "Parameters must be a 4-element array"

\* C4: generate_parameters(mode) returns (5.97, 3.95, 3.26, 2.85) for 'mean',
\* a 4-element vector for 'random', and fails with the invalid-mode error for
\* every other mode, returning no parameters; so CochleaModel(parameters=None,
\* mode=m) with m outside {'mean','random'} fails and yields no model.
C4_GenerateModes ==
    /\ result.op = "generate_parameters" =>
         /\ result.arg = "mean" =>
              (result.out.status = "ok" /\ result.out.value = <<597, 395, 326, 285>>)
         /\ result.arg = "random" =>
              (result.out.status = "ok" /\ Len(result.out.value) = 4)
         /\ result.arg \notin {"mean", "random"} =>
              /\ result.out.status = "raise"
              /\ result.out.error.text = "Mode must be 'mean' or 'random'"
              /\ result.out.value = << >>
    /\ ( /\ result.op = "CochleaModel"
         /\ ~result.arg.parameters.some
         /\ result.arg.mode \notin {"mean", "random"} ) =>
            /\ result.out.status = "raise"
            /\ result.out.error.text = "Mode must be 'mean' or 'random'"
            /\ ~model.built

\* C4 happens: CochleaModel(mode='custom') without parameters has failed
C4_Witness ==
    /\ result.op = "CochleaModel"
    /\ ~result.arg.parameters.some
    /\ result.arg.mode = "custom"
    /\ result.out.status = "raise"
    /\ ~model.built

\* C5: for every parameter vector that passes validation, the constructed
\* model has c_length > 0, c_length = (dot({1,A1,B1,A2,B2}, turns)/360)*2*pi
\* and n_turns = c_length/(2*pi).
C5_TotalAnglePositive ==
    (model.built /\ InBounds(model.A)) =>
        /\ model.c_length > 0
        /\ model.c_length = ((dot1A(model.A, coefs_turns) \div 36000) * TwoPi) \div 10000
        /\ model.n_turns = (model.c_length * 10000) \div TwoPi

\* C5 happens: the model built from the in-bounds vector with the fewest
\* turns (A1 lowest, B1 and A2 highest, B2 lowest)
C5_Witness ==
    /\ model.built
    /\ model.A = <<400, 550, 450, 150>>
    /\ model.c_length > 0
    /\ model.n_turns > 0

C7_NonPositiveResolutionFails ==
    (result.op = "generate_geometry" /\ result.arg <= 0) =>
        result.out.status = "raise"

\* C8: get_point_at_position(turn_fraction) fails with an out-of-range error
\* for every turn_fraction < 0 or > 1 and returns no point; for turn_fraction
\* in [0,1] it returns phi = turn_fraction * c_length, 0 <= phi <= c_length.
C8_TurnFractionRange ==
    result.op = "get_point_at_position" =>
        /\ (result.arg < 0 \/ result.arg > 100) => result.out.status = "raise"
        /\ (0 <= result.arg /\ result.arg <= 100) =>
             /\ result.out.status = "ok"
             /\ result.out.value.phi = (result.arg * model.c_length) \div 100
             /\ 0 <= result.out.value.phi
             /\ result.out.value.phi <= model.c_length

\* the selected samples of an export_csv call whose tangent has zero length
DegenerateSections(m, arg) ==
    LET g == generate_geometry(m, arg.resolution).value
    IN  { k \in 1..arg.num_cross_sections :
            norm(tangent_at(g, section_idx(k - 1, arg.num_cross_sections,
                                           Len(g.phi)),
                            arg.centerline_mode)) = 0 }

\* C9: in the frame-based cross-section export, whenever the finite-difference
\* tangent at a selected sample has zero magnitude (a geometry with a single
\* sample, two identical adjacent centerline points, a 2D tangent whose XY
\* part is zero) the operation fails with a degenerate-tangent error instead
\* of normalising it, and no ring computed from that tangent is written.
C9_DegenerateTangentFails ==
    (result.op = "export_csv" /\ result.arg.resolution > 0 /\ fs.exists) =>
        \A k \in DegenerateSections(model, result.arg) :
            /\ result.out.status = "raise"
            /\ File("cross_section", k) \notin DOMAIN fs.files

\* C10: after main runs with --save-plots (plotting enabled) and returns 0,
\* the three PNG files it saved under <export-dir>/plots still exist: no
\* later step of the run, in particular the export step's removal of an
\* existing export directory without --keep-existing, deletes them.
C10_SavedPlotsSurvive ==
    (pc = "done" /\ ret = Some(0) /\ args.save_plots /\ ~args.no_plot) =>
        PlotFiles \subseteq DOMAIN fs.files

\* the steps of export_all
ExportAllSteps == {"export_all", "ask_mode", "ask_count", "write_files"}

\* C11: with --keep-existing (replace_existing=False) no step of export_all
\* deletes a file that existed in the export directory or replaces its
\* content.
C11_KeepExistingKeepsFiles ==
    [][ (pc \in ExportAllSteps /\ args.keep_existing) =>
          \A f \in DOMAIN fs.files :
              /\ f \in DOMAIN fs'.files
              /\ fs'.files[f] = fs.files[f] ]_vars

\* C12: the command line rejects, before any CochleaModel is constructed,
\* --mode custom without --parameters and --parameters with another mode; in
\* the accepted cases a model is built from the 4 supplied values exactly
\* when mode is custom.
C12_InvalidCombinationsRejected ==
    /\ ( /\ args.mode # ""
         /\ \/ (args.mode = "custom" /\ ~args.parameters.some)
            \/ (args.mode # "custom" /\ args.parameters.some) ) =>
           (pc = "exit" /\ ret = Some(2) /\ ~model.built)
    /\ pc = "exit" => ~model.built
    /\ (model.built /\ args.mode = "custom") =>
           (args.parameters.some /\ model.A = args.parameters.val)
    /\ (model.built /\ args.mode # "custom") =>
           /\ ~args.parameters.some
           /\ \E out \in generate_parameters(args.mode) : model.A = out.value

\* C12 happens: --parameters with --mode mean has been rejected
C12_Witness ==
    /\ pc = "exit" /\ ret = Some(2)
    /\ args.mode = "mean" /\ args.parameters.some
    /\ ~model.built

\* C13: every cross-section ring is closed, in the half-curve variant (17
\* points) and in the frame-based export variant (61 points): it has n+1
\* points sampled at theta over [0, 2*pi] inclusive and its first and last
\* points coincide. The rings are the point lists generate_cross_sections
\* returned and the row lists of the cross-section files export_csv wrote.
C13_RingsClosed ==
    /\ (result.op = "generate_cross_sections" /\ result.out.status = "ok") =>
          \A s \in 1..Len(result.out.value) :
             /\ Len(result.out.value[s].points) = 17
             /\ result.out.value[s].points[1] = result.out.value[s].points[17]
    /\ \A f \in DOMAIN fs.files :
          f[1] = "cross_section" =>
             /\ Len(fs.files[f].rows) = 61
             /\ fs.files[f].rows[1] = fs.files[f].rows[61]
    /\ Len(angles) = n_circle_points + 1
    /\ angles[1] = [cos |-> 10000, sin |-> 0]
    /\ angles[n_circle_points + 1] = angles[1]

\* C13 happens: an export has written a ring of numbers whose first and
\* last rows are equal and whose other rows differ from them
C13_Witness ==
    /\ result.op = "export_csv" /\ result.out.status = "ok"
    /\ \E f \in DOMAIN fs.files :
          /\ f[1] = "cross_section" /\ ~fs.files[f].nan
          /\ fs.files[f].rows[1] = fs.files[f].rows[61]
          /\ \A k \in 2..60 : fs.files[f].rows[k] # fs.files[f].rows[1]

\* the largest rounding error, in 1/10000, of a length or a dot product of
\* the vectors of a frame
FrameTol == 4

\* np.dot of two vectors in 1/10000, in 1/10000
dot(a, b) == (a[1] * b[1] + a[2] * b[2] + a[3] * b[3]) \div 10000

IsUnit(v) == ~IsNaN3(v) /\ Abs(norm(v) - 10000) <= FrameTol

IsOrthogonal(a, b) == Abs(dot(a, b)) <= FrameTol

\* C14: frame construction never selects a degenerate perpendicular: for
\* every unit tangent the reference axis chosen (world-Z when
\* |tangent.z| < 0.9, world-X otherwise) is not parallel to the tangent, so
\* its cross product with the tangent is non-zero, and perp1 and perp2 are
\* unit-length, orthogonal to the tangent and to each other.
C14_FrameOrthonormal ==
    (result.op = "frame" /\ ~IsNaN3(result.out.value.tangent)) =>
        LET tangent == result.out.value.tangent
            perp1 == result.out.value.perp1
            perp2 == result.out.value.perp2
            axis == IF Abs(tangent[3]) < 9000 THEN <<0, 0, 10000>>
                    ELSE <<10000, 0, 0>>
        IN  /\ IsUnit(tangent)
            /\ norm(cross(axis, tangent)) > 0
            /\ IsUnit(perp1) /\ IsUnit(perp2)
            /\ IsOrthogonal(tangent, perp1)
            /\ IsOrthogonal(tangent, perp2)
            /\ IsOrthogonal(perp1, perp2)

\* C14 happens: a frame was built from a tangent along world-Z, for which
\* the world-X axis is the one chosen
C14_Witness ==
    /\ result.op = "frame"
    /\ result.arg = <<0, 0, 1000>>
    /\ result.out.value.tangent = <<0, 0, 10000>>
    /\ IsUnit(result.out.value.perp1)
    /\ IsUnit(result.out.value.perp2)

\* (totalAngle - phi)/totalAngle * 0.5 + 0.6, in micrometres
TubeRadius(c_length, phi) == ((c_length - phi) * 500) \div c_length + 600

\* 0.6 < r <= 1.1 for a radius held in micrometres, rounded down: the exact
\* radius exceeds 0.6 exactly when phi is below the total angle
InTubeRange(c_length, phi, r) ==
    /\ phi < c_length
    /\ 600 <= r /\ r <= 1100

C16_WallTouchesCenterline ==
    (result.op = "generate_geometry" /\ result.arg > 0) =>
        LET g == result.out.value
        IN  /\ Len(g.scala.x) >= 1
            /\ \A i \in 1..Len(g.phi) :
                  /\ g.scala.x[1][i] = g.centerline[1][i]
                  /\ g.scala.y[1][i] = g.centerline[2][i]
                  /\ g.scala.z[1][i] = g.centerline[3][i]

\* C16 happens: a mesh of several rings whose second circumferential sample
\* is off the centerline
C16_Witness ==
    /\ result.op = "generate_geometry" /\ result.arg > 0
    /\ Len(result.out.value.phi) >= 3
    /\ Len(result.out.value.scala.x) >= 2
    /\ result.out.value.scala.x[1][2] = result.out.value.centerline[1][2]
    /\ result.out.value.scala.z[2][2] # result.out.value.centerline[3][2]

\* C17: for every positive resolution the geometry is shape-consistent:
\* 'phi', 'turns', 'r_modiolus' and each row of 'centerline' have the same
\* length N, 'centerline' has exactly 3 rows, and scala x, y, z are M-by-N
\* grids, M the number of samples of [0, 2*pi) at the same resolution;
\* element [j][i] belongs to circumferential sample j and phi sample i.
C17_ShapeConsistent ==
    (result.op = "generate_geometry" /\ result.arg > 0) =>
        LET g == result.out.value
            N == Len(g.phi)
            M == CeilDiv(TwoPi, result.arg)
            grids == <<g.scala.x, g.scala.y, g.scala.z>>
        IN  /\ result.out.status = "ok"
            /\ Len(g.turns) = N /\ Len(g.r_modiolus) = N
            /\ Len(g.centerline) = 3
            /\ \A c \in 1..3 : Len(g.centerline[c]) = N
            /\ \A c \in 1..3 :
                  /\ Len(grids[c]) = M
                  /\ \A j \in 1..M : Len(grids[c][j]) = N
            /\ \A j \in 1..M : \A i \in 1..N :
                  g.scala.z[j][i] =
                      (r_scala_at(model.c_length, g.phi[i])
                         * sin((j - 1) * result.arg)) \div 10000
                      + g.centerline[3][i]

\* C17 happens: a mesh that is not square, with more phi samples than
\* circumferential samples
C17_Witness ==
    /\ result.op = "generate_geometry" /\ result.arg > 0
    /\ Len(result.out.value.scala.x) = 4
    /\ Len(result.out.value.scala.x[4]) = Len(result.out.value.phi)
    /\ Len(result.out.value.phi) > 4

\* C18: for every valid parameter vector, save_parameters followed by
\* load_parameters on the same file returns exactly 4 values in the order
\* A1, B1, A2, B2, each the saved value rounded to 6 decimal places; the
\* header comment line is not returned as data.
C18_SaveLoadRoundTrip ==
    (result.op = "load_parameters" /\ fs.exists) =>
        LET lines == fs.files[File("parameters.txt", 0)].lines
        IN  /\ Len(lines) = 5
            /\ lines[1] = TextLine("# ", "A1, B1, A2, B2")
            /\ result.out.status = "ok"
            /\ Len(result.out.value) = 4
            /\ \A i \in 1..4 :
                  /\ result.out.value[i] % 10 = 0
                  /\ Abs(result.out.value[i] - result.arg[i]) <= 5
                  /\ result.out.value[i] = 10 * lines[i + 1].fields[1]

\* C18 happens: a vector with more than six decimals came back rounded
C18_Witness ==
    /\ result.op = "load_parameters" /\ result.out.status = "ok"
    /\ result.arg = <<59712346, 39500004, 32600006, 28499999>>
    /\ result.out.value = <<59712350, 39500000, 32600010, 28500000>>

\* C19 as stated: for the mean-mode parameters (5.97, 3.95, 3.26, 2.85) the
\* model's turnCount lies within 2.4 to 2.6 turns.
C19_MeanTurnCountStated ==
    (model.built /\ model.A = means) =>
        (24000 <= model.n_turns /\ model.n_turns <= 26000)

\* C19, amended: for the mean-mode parameters (5.97, 3.95, 3.26, 2.85) the
\* model's turnCount is 2.686 turns to three decimals (within 2.68 to 2.69).
C19_MeanTurnCount ==
    (model.built /\ model.A = means) =>
        (26800 <= model.n_turns /\ model.n_turns <= 26900)

\* C19 happens: CochleaModel(mode='mean') has been built
C19_Witness ==
    /\ result.op = "CochleaModel" /\ result.arg.mode = "mean"
    /\ ~result.arg.parameters.some
    /\ model.built /\ model.A = <<597, 395, 326, 285>>
    /\ model.n_turns > 26000

\* dot({1, A1, B1, A2, B2}, table[:, i]), in 1/1000000 mm
TableDot(A, table, i) ==
    (100 * table[1][i + 1] + A[1] * table[2][i + 1] + A[2] * table[3][i + 1]
       + A[3] * table[4][i + 1] + A[4] * table[5][i + 1]) \div 100

\* C20: radius and height at phi = 0 equal the polynomials' constant terms,
\* dot({1,A1,B1,A2,B2}, modiolus[:,0]) and dot({1,A1,B1,A2,B2}, height[:,0]);
\* table column i supplies the coefficient of phi^i (checked at phi = 2 rad,
\* where phi^i = 2^i), and get_radius_coeffs / get_height_coeffs return the
\* same coefficients highest degree first.
C20_ConstantTerms ==
    /\ (result.op = "get_point_at_position" /\ result.arg = 0) =>
          /\ result.out.status = "ok"
          /\ result.out.value.phi = 0
          /\ result.out.value.radius_modiolus
                = TableDot(model.A, coefs_modiolus, 0)
          /\ result.out.value.height = TableDot(model.A, coefs_height, 0)
    /\ model.built =>
          LET r(i) == TableDot(model.A, coefs_modiolus, i)
              h(i) == TableDot(model.A, coefs_height, i)
          IN  /\ get_radius_coeffs(model.A) = << r(3), r(2), r(1), r(0) >>
              /\ get_height_coeffs(model.A)
                    = << h(4), h(3), h(2), h(1), h(0) >>
              /\ _radius_modiolus_poly(model.A, 2000)
                    = r(0) + 2 * r(1) + 4 * r(2) + 8 * r(3)
              /\ _height_poly(model.A, 2000)
                    = h(0) + 2 * h(1) + 4 * h(2) + 8 * h(3) + 16 * h(4)

\* C20 happens: get_point_at_position(0) has returned for a built model whose
\* constant and leading radius coefficients differ
C20_Witness ==
    /\ model.built
    /\ result.op = "get_point_at_position" /\ result.arg = 0
    /\ result.out.status = "ok"
    /\ result.out.value.radius_modiolus > 0
    /\ TableDot(model.A, coefs_modiolus, 0)
          # TableDot(model.A, coefs_modiolus, 3)

\* C21: for every model, calculate_length(with_height=True) >=
\* calculate_length(with_height=False) >= 0.
C21_HeightAddsLength ==
    (result.op = "calculate_length" /\ model.built) =>
        /\ result.out.status = "ok"
        /\ result.out.value >= 0
        /\ result.arg => result.out.value >= calculate_length(model, FALSE)
        /\ ~result.arg => result.out.value <= calculate_length(model, TRUE)

\* C21 happens: the length with height has been returned and is strictly
\* greater than the positive length without height
C21_Witness ==
    /\ result.op = "calculate_length" /\ result.arg
    /\ result.out.status = "ok"
    /\ calculate_length(model, FALSE) > 0
    /\ result.out.value > calculate_length(model, FALSE)

\* the last call of a model method, made again now with the same arguments
Repeated ==
    CASE result.op = "generate_geometry" ->
           generate_geometry(model, result.arg)
      [] result.op = "get_point_at_position" ->
           get_point_at_position(model, result.arg)
      [] result.op = "calculate_length" ->
           Ok(calculate_length(model, result.arg))
      [] result.op = "generate_cross_sections" ->
           generate_cross_sections(model,
               IF result.arg.resolution = 0 THEN None
               ELSE Some(generate_geometry(model,
                                           result.arg.resolution)["value"]),
               result.arg.num_sections)
      [] result.op = "get_radius_coeffs" -> Ok(get_radius_coeffs(model.A))
      [] result.op = "get_height_coeffs" -> Ok(get_height_coeffs(model.A))
      [] OTHER -> result.out

C24_HalfCurveSections ==
    (result.op = "generate_cross_sections" /\ result.arg.num_sections >= 1) =>
        LET g == generate_geometry(model,
                     IF result.arg.resolution = 0 THEN 5000
                     ELSE result.arg.resolution)["value"]
            N == Len(g["phi"])
            half == IF N \div 2 - 1 > 0 THEN N \div 2 - 1 ELSE 0
            sections == result.out.value
            TakenAt(sec, i) ==
                /\ sec.phi = g["phi"][i + 1]
                /\ sec.center = << g["centerline"][1][i + 1],
                                   g["centerline"][2][i + 1],
                                   g["centerline"][3][i + 1] >>
                /\ sec.radius = TubeRadius(model.c_length, g["phi"][i + 1])
        IN  N >= 1 =>
              /\ result.out.status = "ok"
              /\ Len(sections) = result.arg.num_sections
              /\ \A s \in 1..Len(sections) :
                    \E i \in 0..half : TakenAt(sections[s], i)
              /\ TakenAt(sections[1], 0)
              /\ \A s \in 1..(Len(sections) - 1) :
                    sections[s].phi <= sections[s + 1].phi

\* C24 happens: ten sections were taken from a geometry of at least six
\* samples, the last one beyond the second sample
C24_Witness ==
    /\ result.op = "generate_cross_sections" /\ result.out.status = "ok"
    /\ result.arg.num_sections = 10 /\ result.arg.resolution = 2000
    /\ Len(result.out.value) = 10
    /\ result.out.value[10].phi > 2000
    /\ result.out.value[1].phi = 0

\* the geometry the last export_csv call was given
ExportedGeometry == generate_geometry(model, result.arg.resolution)["value"]

\* cross_section_<k>.csv holds the section taken at sample idx
SectionFileAt(k, idx) ==
    /\ File("cross_section", k) \in DOMAIN fs.files
    /\ fs.files[File("cross_section", k)]
          = section_at(model, ExportedGeometry, result.arg.centerline_mode, idx)

\* C25 as stated: for count >= 2 sections and a geometry of N samples,
\* section k (1-based) is taken at sample index
\* floor((k-1)/(count-1) * (N-1)), and exactly count files
\* cross_section_1.csv .. cross_section_<count>.csv are written.
C25_FullRangeStated ==
    (result.op = "export_csv" /\ result.out.status = "ok") =>
        LET count == result.arg.num_cross_sections
            N == Len(ExportedGeometry["phi"])
        IN  /\ result.out.value.cross_sections
                  = [k \in 1..count |-> File("cross_section", k)]
            /\ \A k \in 1..count :
                  SectionFileAt(k, section_idx_exact(k - 1, count, N))

\* What export_csv does guarantee about the placement: section k is taken
\* at sample index floor((k-1)/(count-1) * (N-1)) or, by floating-point
\* rounding, at the index before it; the first section is at sample 0, the
\* last at sample N-1, the indices are non-decreasing, and exactly count
\* files are written.
FullRangeWithinOne ==
    (result.op = "export_csv" /\ result.out.status = "ok") =>
        LET count == result.arg.num_cross_sections
            N == Len(ExportedGeometry["phi"])
            floor(k) == section_idx_exact(k - 1, count, N)
            taken(k) == IF SectionFileAt(k, floor(k)) THEN floor(k)
                        ELSE floor(k) - 1
        IN  /\ result.out.value.cross_sections
                  = [k \in 1..count |-> File("cross_section", k)]
            /\ \A k \in 1..count :
                  taken(k) \in 0..(N - 1) /\ SectionFileAt(k, taken(k))
            /\ SectionFileAt(1, 0)
            /\ SectionFileAt(count, N - 1)
            /\ \A k \in 1..(count - 1) : taken(k) <= taken(k + 1)

\* C25 happens: 7 sections of a 19-sample geometry were written, the sixth
\* at sample 14 and not at floor(5/6 * 18) = 15
C25_Witness ==
    /\ result.op = "export_csv" /\ result.out.status = "ok"
    /\ result.arg.num_cross_sections = 7
    /\ Len(ExportedGeometry["phi"]) = 19
    /\ SectionFileAt(6, 14) /\ ~SectionFileAt(6, 15)
    /\ SectionFileAt(7, 18)

\* C26: in the frame-based variant the tangent at a selected sample s is
\* the forward difference centerline[s+1] - centerline[s] when s is not
\* the last sample, and the backward difference
\* centerline[N-1] - centerline[N-2] when it is; in both cases the ring's
\* center, phi and radius are those of the selected sample s itself.
C26_FiniteDifferenceTangent ==
    (result.op = "export_csv" /\ result.out.status = "ok") =>
        LET g == ExportedGeometry
            N == Len(g["phi"])
            mode == result.arg.centerline_mode
            count == result.arg.num_cross_sections
            point(i) == << g["centerline"][1][i + 1], g["centerline"][2][i + 1],
                           g["centerline"][3][i + 1] >>
            difference(s) ==
                LET a == IF s < N - 1 THEN point(s + 1) ELSE point(N - 1)
                    b == IF s < N - 1 THEN point(s) ELSE point(N - 2)
                IN  << a[1] - b[1], a[2] - b[2],
                       IF mode = "3D" THEN a[3] - b[3] ELSE 0 >>
            ring(s) ==
                ring_rows(point(s), TubeRadius(model.c_length, g["phi"][s + 1]),
                          frame(difference(s)), mode)
        IN  N >= 2 =>
              \A k \in 1..count :
                 fs.files[File("cross_section", k)].rows
                   = ring(section_idx(k - 1, count, N))

\* C26 happens: rings were written at an inner sample and at the last sample
\* of a geometry of 19 samples, and they hold numbers
C26_Witness ==
    /\ result.op = "export_csv" /\ result.out.status = "ok"
    /\ result.arg.num_cross_sections = 3
    /\ Len(ExportedGeometry["phi"]) = 19
    /\ SectionFileAt(2, 9) /\ SectionFileAt(3, 18)
    /\ ~fs.files[File("cross_section", 2)].nan
    /\ ~fs.files[File("cross_section", 3)].nan
    /\ fs.files[File("cross_section", 3)].rows
          # section_at_shifted(model, ExportedGeometry,
                               result.arg.centerline_mode, 18).rows

\* C27: the parameters returned by generate_parameters('random') do not
\* depend on the correlated multivariate-normal sample nor on the unused
\* standard-normal draws: a run that differs from the one made only in
\* those discarded draws, and agrees on the four independent normal draws,
\* returns the identical parameter vector.
C27_DiscardedDrawsIgnored ==
    (result.op = "generate_parameters" /\ result.arg = "random") =>
        /\ result.out.status = "ok"
        /\ \A other \in Draws :
              other.parameters = result.draws.parameters =>
                 Ok(generate_parameters_drawn(other)) = result.out

\* C27 happens: a random vector was returned in a run whose correlated
\* sample was not the mean vector, and another run with other discarded
\* draws exists
C27_Witness ==
    /\ result.op = "generate_parameters" /\ result.arg = "random"
    /\ result.out.status = "ok"
    /\ result.draws.random_values # <<100, 100, 100, 100>>
    /\ result.out.value # generate_parameters_correlated(result.draws)
    /\ \E other \in Draws :
          /\ other.parameters = result.draws.parameters
          /\ other.random_values # result.draws.random_values
          /\ other.uniform_value # result.draws.uniform_value

\* the answers the two prompts accept
ValidAnswers ==
    /\ locals.centerline_mode \in {"3D", "2D"}
    /\ 2 <= locals.num_cross_sections /\ locals.num_cross_sections <= 20

\* a prompt was answered and is shown again
Reprompted ==
    \/ pc = "ask_mode" /\ pc' = "ask_mode"
    \/ pc = "ask_count" /\ pc' = "ask_count"

\* C28 as stated: export_all reaches geometry generation and file writing
\* only after both prompts were answered validly; the centerline prompt
\* repeats until the input is '1' or '2' and the count prompt until it is
\* empty or an integer in 2..20; any other input changes nothing and
\* re-prompts.
C28_PromptsStated ==
    /\ [](pc = "write_files" => ValidAnswers)
    /\ [][Reprompted => UNCHANGED <<locals, fs, model, ret>>]_vars

\* C28, amended: export_all reaches geometry generation and file writing
\* only from the count prompt and only with centerline_mode in {'3D','2D'}
\* and 2 <= num_cross_sections <= 20; the centerline prompt repeats until
\* the input is '1' or '2' and the count prompt until it is empty (count 5)
\* or an integer in 2..20; any other line re-prompts without touching the
\* files, the model or the chosen mode (an integer outside 2..20 is stored
\* in num_cross_sections and replaced before it is used), and end of input
\* ends export_all with EOFError, no export made.
C28_Prompts ==
    /\ [](pc = "write_files" => ValidAnswers)
    /\ [][pc' = "write_files" => pc \in {"ask_count", "write_files"}]_vars
    /\ [][pc' = "ask_count" =>
            pc \in {"ask_mode", "ask_count"}
            /\ locals'.centerline_mode \in {"3D", "2D"}]_vars
    /\ [][Reprompted =>
            /\ UNCHANGED <<fs, model, ret>>
            /\ locals'.centerline_mode = locals.centerline_mode]_vars
    /\ [][(pc = "ask_mode" /\ pc' = "ask_mode") => UNCHANGED locals]_vars
    /\ [][(pc \in {"ask_mode", "ask_count"} /\ pc' = "done") =>
            /\ result'.out.status = "raise"
            /\ result'.out.error.type = "EOFError"
            /\ UNCHANGED fs /\ ret' = Some(1)]_vars

\* C28 happens: the export is about to write with the default count of 5
\* sections and the 2D centerline
C28_Witness ==
    /\ pc = "write_files"
    /\ locals.centerline_mode = "2D" /\ locals.num_cross_sections = 5

StepOrder ==
    << "create_model", "visualize", "export_all", "ask_mode", "ask_count",
       "write_files", "statistics" >>

Position(p) == CHOOSE i \in 1..Len(StepOrder) : StepOrder[i] = p

\* C30: main returns 0 only if model construction, visualization (unless
\* --no-plot), export and the length statistics all completed, in that
\* order, without raising; if any of these steps raises an exception it is
\* caught, no later step runs, and main returns 1; in particular export is
\* never started when model construction fails.
C30_ReturnCodes ==
    /\ [](ret = Some(0) =>
            /\ pc = "done" /\ model.built
            /\ result.op = "main" /\ result.arg = "statistics"
            /\ result.out.status = "ok"
            /\ File("centerline.csv", 0) \in DOMAIN fs.files)
    /\ [][ret' = Some(0) => (ret = Some(0) \/ pc = "statistics")]_vars
    /\ [][(pc \in {"visualize", "export_all", "ask_mode", "ask_count",
                   "write_files", "statistics"} /\ pc' # "done") =>
            /\ Position(pc') \in {Position(pc), Position(pc) + 1}
            /\ model' = model /\ model.built]_vars
    /\ [][(result'.out.status = "raise" /\ result.out.status # "raise") =>
            /\ pc' = "done" /\ ret' = Some(1)
            /\ result'.arg = pc
            /\ model' = model]_vars
    /\ [][pc \notin {"done", "exit"}]_vars
    /\ [](~model.built => pc \in {"parse_args", "create_model", "done", "exit"})
    /\ [][(~model.built /\ ~model'.built) => fs' = fs]_vars

\* C30 happens: the plots raised after the model was built, main returned 1
\* and the export directory was never touched
C30_Witness ==
    /\ pc = "done" /\ ret = Some(1) /\ model.built
    /\ result.op = "main" /\ result.arg = "visualize"
    /\ result.out.status = "raise"
    /\ fs \in {NoDir, OldDir}

====
